---- MODULE Spec2Model ----
(***************************************************************************)
(* Model of the esp32-buzzer driver (src/buzzer.c, buzzer/buzzer.h).       *)
(*                                                                         *)
(* One buzzer handle, the LEDC timer behind it, and one calling task.  A   *)
(* public operation runs from its call to its return or to its vTaskDelay, *)
(* where the task blocks (pc = "sleeping") until TaskDelayReturn runs the  *)
(* rest of the call.  Every ledc_* call takes its result from HwResults;   *)
(* every call and every delay is appended to log.                          *)
(***************************************************************************)
EXTENDS Integers, Sequences, FiniteSets, TLC

VARIABLES
    playing,        \* buzzer->playing
    freq_hz,        \* buzzer->freq_hz (int32_t)
    timer_running,  \* the LEDC timer is counting (not paused)
    pc,             \* "idle": no call in progress; "sleeping": inside
                    \* vTaskDelay; "trapped": stopped by a division by zero
    op,             \* the public operation called last (or in progress)
    arg,            \* its arguments
    pre,            \* playing / freq_hz when it was called
    log,            \* ledc_* calls and delays it has issued so far, in order
    fail,           \* the first of its ledc_* calls that did not report ESP_OK
    ret,            \* its return value (its local `ret` while it sleeps)
    fn,             \* the function blocked in vTaskDelay: "play_ms" / "rest_ms"
    was_playing,    \* buzzer_rest_ms's local was_playing
    i               \* buzzer_play_melody's loop index (1-based), 0 outside it

vars == <<playing, freq_hz, timer_running, pc, op, arg, pre, log, fail, ret, fn,
          was_playing, i>>

-----------------------------------------------------------------------------
(* Constants of the program *)

ESP_OK == 0
ESP_FAIL == -1
ESP_ERR_INVALID_ARG == 258

\* What a ledc_* call can return (esp_err_t): success, ESP_FAIL, or another
\* error code; ESP_ERR_INVALID_ARG (0x102) is the one the LEDC driver documents
\* for ledc_timer_pause, ledc_timer_resume and ledc_set_freq.
HwResults == {ESP_OK, ESP_FAIL, ESP_ERR_INVALID_ARG}

BUZZER_1_MIN_MS == 60000
BUZZER_BASE_PULSE_DIVISIONS == 8
BUZZER_INTIIAL_FREQ == 440

BUZZER_NOTE_C == 0
BUZZER_NOTE_D == 2
BUZZER_NOTE_E == 4
BUZZER_NOTE_F == 5
BUZZER_NOTE_G == 7
BUZZER_NOTE_A == 9
BUZZER_NOTE_As == 10
BUZZER_NOTE_B == 11
BUZZER_NOTE_MAX == 12
BUZZER_NOTE_REST == 13

UINT8_MAX == 255

PitchClasses == BUZZER_NOTE_C .. BUZZER_NOTE_B

BUZZER_NTYPE_MINIM == 16
BUZZER_NTYPE_CROTCHET == 8
BUZZER_NTYPE_QUAVER_DOTTED == 6
BUZZER_NTYPE_QUAVER == 4
BUZZER_NTYPE_SEMIQUAVER == 2

NoteTypes == {48, 32, 24, 16, 12, 8, 6, 4, 3, 2}

\* note_base_freq[note], the table being indexed from 0 in the source
note_base_freq(note) ==
    <<4186, 4435, 4699, 4978, 5274, 5588,
      5920, 6272, 6645, 7040, 7459, 7902>>[note + 1]

NULL == "NULL"
HANDLE == "buzzer"

-----------------------------------------------------------------------------
(* Machine arithmetic *)

\* A uint32_t is kept as its two 16-bit halves, so that every 32-bit value
\* can be written down; an int32_t is kept as the integer it denotes.
U32(n) == [hi |-> n \div 2^16, lo |-> n % 2^16]

\* a uint32_t stored into an int32_t (two's complement: bit 31 is the sign)
ToInt32(u) ==
    IF u.hi >= 2^15 THEN (u.hi - 2^16) * 2^16 + u.lo
    ELSE u.hi * 2^16 + u.lo

\* an int32_t converted to uint32_t (modulo 2^32)
ToUint32(x) == [hi |-> (x \div 2^16) % 2^16, lo |-> x % 2^16]

\* A double is kept as an exact fraction num/den: every double the program
\* computes is a 13-bit integer divided by a power of two.
Double(num, den) == [num |-> num, den |-> den]

\* double -> uint32_t: truncation towards zero (all values here are in range)
DoubleToUint32(d) == U32(d.num \div d.den)

Min(a, b) == IF a < b THEN a ELSE b

-----------------------------------------------------------------------------
(* Tone engine: the pure conversions *)

\* buzzer_note_type_to_ms, a mutation: multiplies before dividing by bpm
note_type_to_ms_mul_first(type, bpm) ==
    ((BUZZER_1_MIN_MS * type) \div BUZZER_BASE_PULSE_DIVISIONS) \div bpm

\* uint32_t arithmetic; the product stays below 2^31 for every bpm >= 1 and
\* every type of the enumeration, so it is kept as the number it denotes
buzzer_note_type_to_ms(type, bpm) ==
    LET ms_per_beat == BUZZER_1_MIN_MS \div bpm
    IN  (ms_per_beat * type) \div BUZZER_BASE_PULSE_DIVISIONS

\* buzzer_get_note_freq, a mutation: BUZZER_NOTE_MAX and BUZZER_NOTE_REST are
\* not told from the pitches, and index the table as C and C#
get_note_freq_no_sentinel(note, octave) ==
    LET oct == IF octave > 8 THEN 8 ELSE octave
        divider == 2^(8 - oct)
    IN  Double(note_base_freq(note % BUZZER_NOTE_MAX), divider)

\* buzzer_get_note_freq, a mutation: the octave is clamped to 7 instead of 8
get_note_freq_clamp7(note, octave) ==
    LET oct == IF octave > 7 THEN 7 ELSE octave
        divider == 2^(8 - oct)
    IN  IF note = BUZZER_NOTE_REST \/ note = BUZZER_NOTE_MAX
        THEN Double(0, 1)
        ELSE Double(note_base_freq(note), divider)

buzzer_get_note_freq(note, octave) ==
    LET oct == IF octave > 8 THEN 8 ELSE octave
        divider == 2^(8 - oct)
    IN  IF note = BUZZER_NOTE_REST \/ note = BUZZER_NOTE_MAX
        THEN Double(0, 1)
        ELSE Double(note_base_freq(note), divider)

-----------------------------------------------------------------------------
(* Playback controller.                                                    *)
(*                                                                         *)
(* The functions work on a context c: the handle argument (c.buzzer), the  *)
(* struct's fields, the timer, the log, and where the call stands: c.pc is *)
(* "return" (returned c.ret), "delay" (blocked in vTaskDelay, called by     *)
(* c.fn) or "trap" (stopped by a division by zero).  r, r1, r2 are the     *)
(* results the ledc_* calls report, should the function get to issue them. *)

Return(c, v) == [c EXCEPT !.ret = v, !.pc = "return"]

\* an integer division by zero: the processor raises an exception and the
\* program stops there
Trap(c) == [c EXCEPT !.pc = "trap"]

\* the conversion of an integer to bool
ToBool(x) == x # 0

\* one entry of the log: the call, its argument as a uint32_t (the frequency
\* of ledc_set_freq, the time of vTaskDelay, 0 for the timer calls), and the
\* melody index being played (0: none)
Event(c, call, a) == [call |-> call, arg |-> a, note |-> c.i]

\* A ledc_* call is issued and reports r.  c.fail keeps the first call of the
\* operation that did not report ESP_OK: the call, its result, the melody
\* index and its position in the log.
Ledc(c, call, a, r) ==
    [c EXCEPT !.log = Append(@, Event(c, call, a)),
              !.fail = IF @ = <<>> /\ r # ESP_OK
                       THEN <<[call |-> call, res |-> r, note |-> c.i,
                               pos |-> Len(c.log) + 1]>>
                       ELSE @,
              !.ret = r]

\* ledc_timer_resume(BUZZER_SPEED_MODE, buzzer->timer): the timer counts
\* again unless the call failed
ledc_timer_resume(c, r) ==
    [Ledc(c, "ledc_timer_resume", U32(0), r) EXCEPT
        !.timer_running = IF r = ESP_OK THEN TRUE ELSE @]

\* ledc_timer_pause(BUZZER_SPEED_MODE, buzzer->timer): the timer stops unless
\* the call failed
ledc_timer_pause(c, r) ==
    [Ledc(c, "ledc_timer_pause", U32(0), r) EXCEPT
        !.timer_running = IF r = ESP_OK THEN FALSE ELSE @]

\* ledc_set_freq(BUZZER_SPEED_MODE, buzzer->timer, freq_hz)
ledc_set_freq(c, f, r) == Ledc(c, "ledc_set_freq", f, r)

\* vTaskDelay(pdMS_TO_TICKS(time_ms)), called by function f: the task blocks
vTaskDelay(c, time_ms, f) ==
    [c EXCEPT !.log = Append(@, Event(c, "vTaskDelay", U32(time_ms))),
              !.pc = "delay",
              !.fn = f]

\* buzzer_play, a mutation: no early return when already playing
play_always_resumes(c, r) ==
    IF c.buzzer = NULL THEN Return(c, ESP_FAIL)
    ELSE LET c1 == ledc_timer_resume(c, r)
         IN  IF c1.ret = ESP_FAIL THEN Return(c1, c1.ret)
             ELSE Return([c1 EXCEPT !.playing = TRUE], ESP_OK)

buzzer_play(c, r) ==
    IF c.buzzer = NULL THEN Return(c, ESP_FAIL)
    ELSE IF c.playing = TRUE THEN Return(c, ESP_OK)
    ELSE LET c1 == ledc_timer_resume(c, r)
         IN  IF c1.ret = ESP_FAIL THEN Return(c1, c1.ret)
             ELSE Return([c1 EXCEPT !.playing = TRUE], ESP_OK)

buzzer_pause(c, r) ==
    IF c.buzzer = NULL THEN Return(c, ESP_FAIL)
    ELSE IF c.playing = FALSE THEN Return(c, ESP_OK)
    ELSE LET c1 == ledc_timer_pause(c, r)
         IN  IF c1.ret = ESP_FAIL THEN Return(c1, c1.ret)
             ELSE Return([c1 EXCEPT !.playing = FALSE], ESP_OK)

\* buzzer_is_playing: the function returns a bool, and its ESP_FAIL for a
\* NULL handle is converted to one
buzzer_is_playing(c) ==
    IF c.buzzer = NULL THEN ToBool(ESP_FAIL) ELSE c.playing

\* buzzer_play_ms up to its vTaskDelay, a mutation: the result of
\* buzzer_play is not looked at
play_ms_sleeps_anyway(c, time_ms, r) ==
    IF c.buzzer = NULL THEN Return(c, ESP_FAIL)
    ELSE vTaskDelay(buzzer_play(c, r), time_ms, "play_ms")

\* buzzer_play_ms up to its vTaskDelay
buzzer_play_ms(c, time_ms, r) ==
    IF c.buzzer = NULL THEN Return(c, ESP_FAIL)
    ELSE LET c1 == buzzer_play(c, r)
         IN  IF c1.ret = ESP_FAIL THEN Return(c1, c1.ret)
             ELSE vTaskDelay(c1, time_ms, "play_ms")

\* buzzer_play_ms after its vTaskDelay, a mutation: the buzzer is left playing
play_ms_wake_no_pause(c, r) == Return(c, ESP_OK)

\* buzzer_play_ms after its vTaskDelay
buzzer_play_ms_wake(c, r) == buzzer_pause(c, r)

\* buzzer_rest_ms up to its vTaskDelay, a mutation: the buzzer is not paused
rest_ms_no_pause(c, time_ms, r) ==
    IF c.buzzer = NULL THEN Return(c, ESP_FAIL)
    ELSE vTaskDelay([c EXCEPT !.was_playing = c.playing], time_ms, "rest_ms")

\* buzzer_rest_ms up to its vTaskDelay
buzzer_rest_ms(c, time_ms, r) ==
    IF c.buzzer = NULL THEN Return(c, ESP_FAIL)
    ELSE LET c0 == [c EXCEPT !.was_playing = c.playing]
             c1 == buzzer_pause(c0, r)
         IN  IF c1.ret = ESP_FAIL THEN Return(c1, c1.ret)
             ELSE vTaskDelay(c1, time_ms, "rest_ms")

\* buzzer_rest_ms after its vTaskDelay, a mutation: the buzzer stays paused
rest_ms_wake_stays_paused(c, r) == Return(c, ESP_OK)

\* buzzer_rest_ms after its vTaskDelay
buzzer_rest_ms_wake(c, r) ==
    IF c.was_playing = TRUE THEN buzzer_play(c, r)
    ELSE Return(c, ESP_OK)

\* the locals of a function that returned: fn and was_playing are dead
PopFrame(c) == [c EXCEPT !.fn = "none", !.was_playing = FALSE]

\* buzzer_set_freq, a mutation: a zero frequency is not rejected
set_freq_accepts_zero(c, f, r) ==
    IF c.buzzer = NULL THEN Return(c, ESP_FAIL)
    ELSE LET c1 == ledc_set_freq(c, f, r)
         IN  IF c1.ret = ESP_FAIL THEN Return(c1, c1.ret)
             ELSE Return([c1 EXCEPT !.freq_hz = ToInt32(f)], ESP_OK)

\* buzzer_set_freq, a mutation: the check that the source has commented out
\* is made, and a frequency equal to the stored one is not set again
set_freq_skips_same(c, f, r) ==
    IF c.buzzer = NULL \/ f = U32(0) THEN Return(c, ESP_FAIL)
    ELSE IF f = ToUint32(c.freq_hz) THEN Return(c, ESP_OK)
    ELSE LET c1 == ledc_set_freq(c, f, r)
         IN  IF c1.ret = ESP_FAIL THEN Return(c1, c1.ret)
             ELSE Return([c1 EXCEPT !.freq_hz = ToInt32(f)], ESP_OK)

\* buzzer_set_freq, a mutation: the buzzer is paused before the frequency is
\* set
set_freq_pauses_first(c, f, r) ==
    IF c.buzzer = NULL \/ f = U32(0) THEN Return(c, ESP_FAIL)
    ELSE LET c1 == ledc_set_freq(buzzer_pause(c, r), f, r)
         IN  IF c1.ret = ESP_FAIL THEN Return(c1, c1.ret)
             ELSE Return([c1 EXCEPT !.freq_hz = ToInt32(f)], ESP_OK)

\* buzzer_set_freq(buzzer, freq_hz), freq_hz a uint32_t
buzzer_set_freq(c, f, r) ==
    IF c.buzzer = NULL \/ f = U32(0) THEN Return(c, ESP_FAIL)
    ELSE LET c1 == ledc_set_freq(c, f, r)
         IN  IF c1.ret = ESP_FAIL THEN Return(c1, c1.ret)
             ELSE Return([c1 EXCEPT !.freq_hz = ToInt32(f)], ESP_OK)

\* buzzer_get_freq
buzzer_get_freq(c) ==
    IF c.buzzer = NULL THEN U32(0) ELSE ToUint32(c.freq_hz)

buzzer_set_note(c, note, octave, r) ==
    IF c.buzzer = NULL THEN Return(c, ESP_FAIL)
    ELSE buzzer_set_freq(c, DoubleToUint32(buzzer_get_note_freq(note, octave)), r)

\* buzzer_play_note up to its callee's vTaskDelay, a mutation: the frequency
\* is set for a rest as well
play_note_sets_rest(c, note, bpm, r1, r2) ==
    IF c.buzzer = NULL \/ note = <<>> \/ bpm = 0 THEN Return(c, ESP_FAIL)
    ELSE LET n  == note[1]
             c1 == buzzer_set_note(c, n.note, n.octave, r1)
             time_ms == buzzer_note_type_to_ms(n.type, bpm)
         IN  IF c1.ret = ESP_FAIL THEN Return(c1, c1.ret)
             ELSE IF n.note = BUZZER_NOTE_REST
                  THEN buzzer_rest_ms(c1, time_ms, r2)
                  ELSE buzzer_play_ms(c1, time_ms, r2)

\* buzzer_play_note without its check of bpm, a mutation
play_note_no_bpm_check(c, note, bpm, r1, r2) ==
    IF c.buzzer = NULL \/ note = <<>> THEN Return(c, ESP_FAIL)
    ELSE LET n  == note[1]
             c1 == IF n.note # BUZZER_NOTE_REST
                   THEN buzzer_set_note(c, n.note, n.octave, r1)
                   ELSE c
             time_ms == buzzer_note_type_to_ms(n.type, bpm)
         IN  IF n.note # BUZZER_NOTE_REST /\ c1.ret = ESP_FAIL
             THEN Return(c1, c1.ret)
             ELSE IF bpm = 0 THEN Trap(c1)
             ELSE IF n.note = BUZZER_NOTE_REST
                  THEN buzzer_rest_ms(c1, time_ms, r2)
                  ELSE buzzer_play_ms(c1, time_ms, r2)

\* buzzer_play_note up to its callee's vTaskDelay; note is the pointer
\* argument (<<>>: NULL, <<n>>: points to n).  time_ms is computed once
\* buzzer_set_note has returned: with a bpm of 0 that division traps.
buzzer_play_note(c, note, bpm, r1, r2) ==
    IF c.buzzer = NULL \/ note = <<>> \/ bpm = 0 THEN Return(c, ESP_FAIL)
    ELSE LET n  == note[1]
             c1 == IF n.note # BUZZER_NOTE_REST
                   THEN buzzer_set_note(c, n.note, n.octave, r1)
                   ELSE c
             time_ms == buzzer_note_type_to_ms(n.type, bpm)
         IN  IF n.note # BUZZER_NOTE_REST /\ c1.ret = ESP_FAIL
             THEN Return(c1, c1.ret)
             ELSE IF bpm = 0 THEN Trap(c1)
             ELSE IF n.note = BUZZER_NOTE_REST
                  THEN buzzer_rest_ms(c1, time_ms, r2)
                  ELSE buzzer_play_ms(c1, time_ms, r2)

\* buzzer_play_note_ms up to its callee's vTaskDelay
buzzer_play_note_ms(c, note, octave, time_ms, r1, r2) ==
    IF c.buzzer = NULL THEN Return(c, ESP_FAIL)
    ELSE LET c1 == buzzer_set_note(c, note, octave, r1)
         IN  IF c1.ret = ESP_FAIL THEN Return(c1, c1.ret)
             ELSE buzzer_play_ms(c1, time_ms, r2)

\* a buzzer_musical_note_t
MusicalNote(n, o, t) == [note |-> n, octave |-> o, type |-> t]

\* The loop of buzzer_play_melody from index k (1-based) on, up to the next
\* vTaskDelay or the return.
RECURSIVE melody_loop(_, _, _, _, _, _)
\* the loop, a mutation: it goes on to the next note whatever
\* buzzer_play_note returned
melody_loop_ignores_failure(c, notes, bpm, k, r1, r2) ==
    IF k > Len(notes) THEN Return([c EXCEPT !.i = k], ESP_OK)
    ELSE LET c1 == buzzer_play_note([c EXCEPT !.i = k], <<notes[k]>>, bpm, r1, r2)
         IN  IF c1.pc \in {"delay", "trap"} THEN c1
             ELSE melody_loop(c1, notes, bpm, k + 1, r1, r2)

melody_loop(c, notes, bpm, k, r1, r2) ==
    IF k > Len(notes) THEN Return([c EXCEPT !.i = k], ESP_OK)
    ELSE LET c1 == buzzer_play_note([c EXCEPT !.i = k], <<notes[k]>>, bpm, r1, r2)
         IN  IF c1.pc \in {"delay", "trap"} THEN c1
             ELSE IF c1.ret = ESP_FAIL THEN Return(c1, c1.ret)
             ELSE melody_loop(c1, notes, bpm, k + 1, r1, r2)

\* buzzer_play_melody up to the first vTaskDelay; melody is the pointer
\* argument (<<>>: NULL, <<notes>>: points to a melody of Len(notes) notes)
buzzer_play_melody(c, melody, bpm, r1, r2) ==
    IF c.buzzer = NULL \/ melody = <<>> \/ bpm = 0 THEN Return(c, ESP_FAIL)
    ELSE melody_loop(c, melody[1], bpm, 1, r1, r2)

\* buzzer_play_melody after a vTaskDelay: the blocked callee finishes note
\* c.i and returns into buzzer_play_note, which returns into the loop
buzzer_play_melody_wake(c, melody, bpm, r0, r1, r2) ==
    LET c1 == PopFrame(IF c.fn = "play_ms" THEN buzzer_play_ms_wake(c, r0)
                                           ELSE buzzer_rest_ms_wake(c, r0))
    IN  IF c1.ret = ESP_FAIL THEN Return(c1, c1.ret)
        ELSE melody_loop(c1, melody[1], bpm, c.i + 1, r1, r2)

\* the melody_notes array of buzzer_play_test
melody_notes ==
    << MusicalNote(BUZZER_NOTE_C,  4, BUZZER_NTYPE_QUAVER_DOTTED),
       MusicalNote(BUZZER_NOTE_C,  4, BUZZER_NTYPE_SEMIQUAVER),
       MusicalNote(BUZZER_NOTE_D,  4, BUZZER_NTYPE_CROTCHET),
       MusicalNote(BUZZER_NOTE_C,  4, BUZZER_NTYPE_CROTCHET),
       MusicalNote(BUZZER_NOTE_F,  4, BUZZER_NTYPE_CROTCHET),
       MusicalNote(BUZZER_NOTE_E,  4, BUZZER_NTYPE_MINIM),
       MusicalNote(BUZZER_NOTE_C,  4, BUZZER_NTYPE_QUAVER_DOTTED),
       MusicalNote(BUZZER_NOTE_C,  4, BUZZER_NTYPE_SEMIQUAVER),
       MusicalNote(BUZZER_NOTE_D,  4, BUZZER_NTYPE_CROTCHET),
       MusicalNote(BUZZER_NOTE_C,  4, BUZZER_NTYPE_CROTCHET),
       MusicalNote(BUZZER_NOTE_G,  4, BUZZER_NTYPE_CROTCHET),
       MusicalNote(BUZZER_NOTE_F,  4, BUZZER_NTYPE_MINIM),
       MusicalNote(BUZZER_NOTE_C,  4, BUZZER_NTYPE_QUAVER_DOTTED),
       MusicalNote(BUZZER_NOTE_C,  4, BUZZER_NTYPE_SEMIQUAVER),
       MusicalNote(BUZZER_NOTE_C,  5, BUZZER_NTYPE_CROTCHET),
       MusicalNote(BUZZER_NOTE_A,  4, BUZZER_NTYPE_CROTCHET),
       MusicalNote(BUZZER_NOTE_F,  4, BUZZER_NTYPE_CROTCHET),
       MusicalNote(BUZZER_NOTE_E,  4, BUZZER_NTYPE_CROTCHET),
       MusicalNote(BUZZER_NOTE_D,  4, BUZZER_NTYPE_CROTCHET),
       MusicalNote(BUZZER_NOTE_As, 4, BUZZER_NTYPE_QUAVER_DOTTED),
       MusicalNote(BUZZER_NOTE_As, 4, BUZZER_NTYPE_SEMIQUAVER),
       MusicalNote(BUZZER_NOTE_A,  4, BUZZER_NTYPE_CROTCHET),
       MusicalNote(BUZZER_NOTE_F,  4, BUZZER_NTYPE_CROTCHET),
       MusicalNote(BUZZER_NOTE_G,  4, BUZZER_NTYPE_CROTCHET),
       MusicalNote(BUZZER_NOTE_F,  4, BUZZER_NTYPE_MINIM) >>

\* buzzer_play_test up to the first vTaskDelay; bpm is a uint16_t, passed on
\* as a uint32_t
buzzer_play_test(c, bpm, r1, r2) ==
    IF c.buzzer = NULL \/ bpm = 0 THEN Return(c, ESP_FAIL)
    ELSE buzzer_play_melody(c, <<melody_notes>>, bpm, r1, r2)

-----------------------------------------------------------------------------
(* Bounds and inputs *)

MaxMelodyLen == 2
MaxBpm == 130

Handles == {NULL, HANDLE}

\* freq_hz arguments of buzzer_set_freq (uint32_t)
FreqInputs == {U32(0), U32(4186), [hi |-> 2^15, lo |-> 0]}

NoteInputs == {BUZZER_NOTE_C, BUZZER_NOTE_MAX, BUZZER_NOTE_REST}
OctaveInputs == {4, 9}
TimeInputs == {250}
BpmInputs == {0, 60}

\* the notes melodies are made of
MelodyNotes ==
    { MusicalNote(BUZZER_NOTE_C, 4, BUZZER_NTYPE_CROTCHET),
      MusicalNote(BUZZER_NOTE_C, 9, BUZZER_NTYPE_QUAVER),
      MusicalNote(BUZZER_NOTE_REST, 0, BUZZER_NTYPE_CROTCHET) }

\* the notes buzzer_play_note is called with, and one-note melodies are made
\* of: those, and a note that is the enumeration's BUZZER_NOTE_MAX
NoteArgs == MelodyNotes \cup {MusicalNote(BUZZER_NOTE_MAX, 4, BUZZER_NTYPE_MINIM)}

Melodies == UNION { [1..n -> MelodyNotes] : n \in 0..MaxMelodyLen }

\* (buzzer, melody, bpm) arguments of buzzer_play_melody: every melody with
\* valid arguments, and the melodies of at most one note with every
\* combination of a NULL handle, a NULL melody and a zero bpm
MelodyArgs ==
    ({HANDLE} \X {<<m>> : m \in Melodies} \X (BpmInputs \ {0}))
    \cup (Handles \X ({<<>>, <<(<<>>)>>} \cup {<<(<<n>>)>> : n \in NoteArgs})
                 \X BpmInputs)

\* (buzzer, bpm) arguments of buzzer_play_test that it rejects; with the
\* others it plays its melody, which SpecTest follows
TestArgs == (Handles \X {0}) \cup ({NULL} \X BpmInputs)

\* the bpm the test melody is played at
TestBpm == 60

\* the argument record of an operation; fields it does not take keep these
NoArg == [buzzer |-> HANDLE, freq_hz |-> U32(0), note |-> 0, octave |-> 0,
          type |-> 0, time_ms |-> 0, mnote |-> <<>>, melody |-> <<>>,
          bpm |-> 0]

-----------------------------------------------------------------------------
(* The handle after buzzer_init, and the operations *)

\* buzzer_init: the fields are set, the timer is configured (and runs) and is
\* then paused; the result of that ledc_timer_pause is not looked at
Init ==
    \E r \in HwResults :
        /\ playing = FALSE
        /\ freq_hz = BUZZER_INTIIAL_FREQ
        /\ timer_running = (r # ESP_OK)
        /\ pc = "idle"
        /\ op = "init"
        /\ arg = NoArg
        /\ pre = [playing |-> FALSE, freq_hz |-> BUZZER_INTIIAL_FREQ]
        /\ log = <<[call |-> "ledc_timer_pause", arg |-> U32(0), note |-> 0]>>
        /\ fail = IF r = ESP_OK THEN <<>>
                  ELSE <<[call |-> "ledc_timer_pause", res |-> r, note |-> 0,
                          pos |-> 1]>>
        /\ ret = ESP_OK
        /\ fn = "none"
        /\ was_playing = FALSE
        /\ i = 0

\* the context of a call that starts now on handle h
Start(h) ==
    [buzzer |-> h, playing |-> playing, freq_hz |-> freq_hz,
     timer_running |-> timer_running, log |-> <<>>, fail |-> <<>>,
     ret |-> ESP_OK,
     pc |-> "return", fn |-> "none", was_playing |-> FALSE, i |-> 0]

\* the context of the call blocked in vTaskDelay
Blocked ==
    [buzzer |-> arg.buzzer, playing |-> playing, freq_hz |-> freq_hz,
     timer_running |-> timer_running, log |-> log, fail |-> fail,
     ret |-> ret,
     pc |-> "delay", fn |-> fn, was_playing |-> was_playing, i |-> i]

\* the state the context c leaves: the call returned or blocks in vTaskDelay
Leave(c) ==
    /\ playing' = c.playing
    /\ freq_hz' = c.freq_hz
    /\ timer_running' = c.timer_running
    /\ log' = c.log
    /\ fail' = c.fail
    /\ ret' = c.ret
    /\ pc' = CASE c.pc = "delay" -> "sleeping"
               [] c.pc = "trap" -> "trapped"
               [] OTHER -> "idle"
    /\ fn' = IF c.pc = "delay" THEN c.fn ELSE "none"
    /\ was_playing' = IF c.pc = "delay" THEN c.was_playing ELSE FALSE
    /\ i' = IF c.pc = "delay" THEN c.i ELSE 0

\* operation name is called with arguments a and runs to context c
Call(name, a, c) ==
    /\ pc = "idle"
    /\ op' = name
    /\ arg' = a
    /\ pre' = [playing |-> playing, freq_hz |-> freq_hz]
    /\ Leave(c)

Play(h, r) ==
    Call("play", [NoArg EXCEPT !.buzzer = h], buzzer_play(Start(h), r))

Pause(h, r) ==
    Call("pause", [NoArg EXCEPT !.buzzer = h], buzzer_pause(Start(h), r))

SetFreq(h, f, r) ==
    Call("set_freq", [NoArg EXCEPT !.buzzer = h, !.freq_hz = f],
         buzzer_set_freq(Start(h), f, r))

SetNote(h, n, o, r) ==
    Call("set_note", [NoArg EXCEPT !.buzzer = h, !.note = n, !.octave = o],
         buzzer_set_note(Start(h), n, o, r))

PlayMs(h, t, r) ==
    Call("play_ms", [NoArg EXCEPT !.buzzer = h, !.time_ms = t],
         buzzer_play_ms(Start(h), t, r))

RestMs(h, t, r) ==
    Call("rest_ms", [NoArg EXCEPT !.buzzer = h, !.time_ms = t],
         buzzer_rest_ms(Start(h), t, r))

PlayNote(h, mn, bpm, r1, r2) ==
    Call("play_note", [NoArg EXCEPT !.buzzer = h, !.mnote = mn, !.bpm = bpm],
         buzzer_play_note(Start(h), mn, bpm, r1, r2))

PlayNoteMs(h, n, o, t, r1, r2) ==
    Call("play_note_ms",
         [NoArg EXCEPT !.buzzer = h, !.note = n, !.octave = o, !.time_ms = t],
         buzzer_play_note_ms(Start(h), n, o, t, r1, r2))

PlayMelody(h, m, bpm, r1, r2) ==
    Call("play_melody", [NoArg EXCEPT !.buzzer = h, !.melody = m, !.bpm = bpm],
         buzzer_play_melody(Start(h), m, bpm, r1, r2))

PlayTest(h, bpm, r1, r2) ==
    Call("play_test", [NoArg EXCEPT !.buzzer = h, !.bpm = bpm],
         buzzer_play_test(Start(h), bpm, r1, r2))

\* the read-only functions: the value read is what the call returns
IsPlaying(h) ==
    Call("is_playing", [NoArg EXCEPT !.buzzer = h],
         Return(Start(h), buzzer_is_playing(Start(h))))

GetFreq(h) ==
    Call("get_freq", [NoArg EXCEPT !.buzzer = h],
         Return(Start(h), buzzer_get_freq(Start(h))))

\* vTaskDelay returns: the blocked call runs on to its return or to its next
\* vTaskDelay
TaskDelayReturn(r0, r1, r2) ==
    /\ pc = "sleeping"
    /\ UNCHANGED <<op, arg, pre>>
    /\ Leave(IF op = "play_melody"
             THEN buzzer_play_melody_wake(Blocked, arg.melody, arg.bpm, r0, r1, r2)
             ELSE IF op = "play_test"
             THEN buzzer_play_melody_wake(Blocked, <<melody_notes>>, arg.bpm,
                                          r0, r1, r2)
             ELSE IF fn = "play_ms"
             THEN buzzer_play_ms_wake(Blocked, r0)
             ELSE buzzer_rest_ms_wake(Blocked, r0))

Next ==
    \/ \E h \in Handles, r \in HwResults : Play(h, r)
    \/ \E h \in Handles, r \in HwResults : Pause(h, r)
    \/ \E h \in Handles, f \in FreqInputs, r \in HwResults : SetFreq(h, f, r)
    \/ \E h \in Handles, n \in NoteInputs, o \in OctaveInputs, r \in HwResults :
           SetNote(h, n, o, r)
    \/ \E h \in Handles, t \in TimeInputs, r \in HwResults : PlayMs(h, t, r)
    \/ \E h \in Handles, t \in TimeInputs, r \in HwResults : RestMs(h, t, r)
    \/ \E h \in Handles, mn \in {<<>>} \cup {<<n>> : n \in NoteArgs},
          bpm \in BpmInputs, r1 \in HwResults, r2 \in HwResults :
           PlayNote(h, mn, bpm, r1, r2)
    \/ \E h \in Handles, n \in NoteInputs, o \in OctaveInputs, t \in TimeInputs,
          r1 \in HwResults, r2 \in HwResults :
           PlayNoteMs(h, n, o, t, r1, r2)
    \/ \E a \in MelodyArgs, r1 \in HwResults, r2 \in HwResults :
           PlayMelody(a[1], a[2], a[3], r1, r2)
    \/ \E a \in TestArgs, r1 \in HwResults, r2 \in HwResults :
           PlayTest(a[1], a[2], r1, r2)
    \/ \E h \in Handles : IsPlaying(h)
    \/ \E h \in Handles : GetFreq(h)
    \/ \E r0 \in HwResults, r1 \in HwResults, r2 \in HwResults :
           TaskDelayReturn(r0, r1, r2)

Spec == Init /\ [][Next]_vars

\* The test melody played: buzzer_play_test called once on the handle that
\* buzzer_init made, with a bpm that is not 0, and every hardware outcome
\* for each of its 25 notes.
TestPlayed ==
    \/ \E r1 \in HwResults, r2 \in HwResults :
           op = "init" /\ PlayTest(HANDLE, TestBpm, r1, r2)
    \/ \E r0 \in HwResults, r1 \in HwResults, r2 \in HwResults :
           TaskDelayReturn(r0, r1, r2)

SpecTest == Init /\ [][TestPlayed]_vars

\* vTaskDelay returns whenever a call is blocked in it: the scheduler wakes
\* the task once the delay is over
TaskDelayReturns ==
    \E r0 \in HwResults, r1 \in HwResults, r2 \in HwResults :
        TaskDelayReturn(r0, r1, r2)

\* how far the call has got: every return of vTaskDelay changes it, since the
\* call either returns or logs its next vTaskDelay
progress == <<pc, Len(log)>>

\* Melodies played one after another, on a buzzer that buzzer_play and
\* buzzer_pause have put in either state
MelodiesPlayed ==
    \/ \E h \in Handles, r \in HwResults : Play(h, r)
    \/ \E h \in Handles, r \in HwResults : Pause(h, r)
    \/ \E a \in MelodyArgs, r1 \in HwResults, r2 \in HwResults :
           PlayMelody(a[1], a[2], a[3], r1, r2)
    \/ TaskDelayReturns

SpecLive == Init /\ [][MelodiesPlayed]_vars /\ WF_progress(TaskDelayReturns)

-----------------------------------------------------------------------------
(* The pure conversions on their own: the inputs are drawn by the initial  *)
(* condition and the one action applies the function.                      *)

\* a state with no call made, holding the inputs a
Inputs(a) ==
    /\ playing = FALSE
    /\ freq_hz = BUZZER_INTIIAL_FREQ
    /\ timer_running = FALSE
    /\ pc = "idle"
    /\ op = "input"
    /\ arg = a
    /\ pre = [playing |-> FALSE, freq_hz |-> BUZZER_INTIIAL_FREQ]
    /\ log = <<>>
    /\ fail = <<>>
    /\ ret = ESP_OK
    /\ fn = "none"
    /\ was_playing = FALSE
    /\ i = 0

InitDuration ==
    \E t \in NoteTypes, b \in 1..MaxBpm :
        Inputs([NoArg EXCEPT !.type = t, !.bpm = b])

NoteTypeToMs ==
    /\ op = "input"
    /\ op' = "note_type_to_ms"
    /\ ret' = buzzer_note_type_to_ms(arg.type, arg.bpm)
    /\ UNCHANGED <<playing, freq_hz, timer_running, pc, arg, pre, log, fail,
                   fn, was_playing, i>>

SpecDuration == InitDuration /\ [][NoteTypeToMs]_vars

InitNoteFreq ==
    \E n \in PitchClasses \cup {BUZZER_NOTE_MAX, BUZZER_NOTE_REST},
       o \in 0..UINT8_MAX :
        Inputs([NoArg EXCEPT !.note = n, !.octave = o])

GetNoteFreq ==
    /\ op = "input"
    /\ op' = "get_note_freq"
    /\ ret' = buzzer_get_note_freq(arg.note, arg.octave)
    /\ UNCHANGED <<playing, freq_hz, timer_running, pc, arg, pre, log, fail,
                   fn, was_playing, i>>

SpecNoteFreq == InitNoteFreq /\ [][GetNoteFreq]_vars

\* The functions that take a note and an octave, called once on a paused
\* buzzer with every note of the enumeration and every uint8_t octave.
SetNoteInput ==
    \E h \in Handles, r \in HwResults :
        op = "input" /\ SetNote(h, arg.note, arg.octave, r)

PlayNoteMsInput ==
    \E h \in Handles, t \in TimeInputs, r1 \in HwResults, r2 \in HwResults :
        op = "input" /\ PlayNoteMs(h, arg.note, arg.octave, t, r1, r2)

NoteCalls == SetNoteInput \/ PlayNoteMsInput \/ TaskDelayReturns

SpecNoteCalls == InitNoteFreq /\ [][NoteCalls]_vars

-----------------------------------------------------------------------------
(* Properties *)

\* the operation op has returned, and was called on the handle
HasReturned(name) == pc = "idle" /\ op = name /\ arg.buzzer = HANDLE

\* how many times `call` is in log l
Count(l, call) == Cardinality({k \in 1..Len(l) : l[k].call = call})

\* the handle as a context, for the read-only functions
Handle == [buzzer |-> HANDLE, freq_hz |-> freq_hz, playing |-> playing]

\* C1: a play or pause whose timer call (resume for play, pause for pause)
\* reports any non-success result returns failure and leaves the playing
\* state as it was; the state changes only when the timer call succeeded.
C1_FailedTimerCallKeepsState ==
    (HasReturned("play") \/ HasReturned("pause")) =>
        /\ fail # <<>> => (ret = ESP_FAIL /\ playing = pre.playing)
        /\ playing # pre.playing => (log # <<>> /\ fail = <<>>)

\* C2: the stored current frequency is strictly greater than 0 in every
\* reachable state.
C2_FrequencyPositive == freq_hz > 0

\* C3: play_melody is fail-fast: once a hardware call made while processing
\* note k has failed, nothing is issued for any note after k, and play_melody
\* returns failure.
C3_MelodyFailFast ==
    (op = "play_melody" /\ fail # <<>>) =>
        /\ \A k \in 1..Len(log) : log[k].note <= fail[1].note
        /\ pc = "idle" => ret = ESP_FAIL

\* the spec's base table (Hz), C to B, the value of each pitch class at
\* octave 8
base_table(note) ==
    CASE note = 0 -> 4186 [] note = 1 -> 4435 [] note = 2 -> 4699
      [] note = 3 -> 4978 [] note = 4 -> 5274 [] note = 5 -> 5588
      [] note = 6 -> 5920 [] note = 7 -> 6272 [] note = 8 -> 6645
      [] note = 9 -> 7040 [] note = 10 -> 7459 [] note = 11 -> 7902

\* the spec's duration_ms
duration_ms(weight, bpm) == ((60000 \div bpm) * weight) \div 8

\* what the claim has play_melody emit for note k of the melody: for a
\* pitch a frequency-set (the note's frequency as an integer), a resume, a
\* sleep and a pause; for a rest a sleep
NoteEvents(n, k, bpm) ==
    IF n.note = BUZZER_NOTE_REST
    THEN << [call |-> "vTaskDelay", arg |-> U32(duration_ms(n.type, bpm)),
             note |-> k] >>
    ELSE << [call |-> "ledc_set_freq",
             arg |-> U32(base_table(n.note) \div 2^(8 - Min(n.octave, 8))),
             note |-> k],
            [call |-> "ledc_timer_resume", arg |-> U32(0), note |-> k],
            [call |-> "vTaskDelay", arg |-> U32(duration_ms(n.type, bpm)),
             note |-> k],
            [call |-> "ledc_timer_pause", arg |-> U32(0), note |-> k] >>

RECURSIVE MelodyEvents(_, _, _)
MelodyEvents(notes, k, bpm) ==
    IF k > Len(notes) THEN <<>>
    ELSE NoteEvents(notes[k], k, bpm) \o MelodyEvents(notes, k + 1, bpm)

\* play_melody was called on a paused handle with a melody of pitches and
\* rests, has returned, and no hardware call failed
MelodyPlayedThrough ==
    /\ HasReturned("play_melody")
    /\ arg.melody # <<>>
    /\ arg.bpm # 0
    /\ \A k \in 1..Len(arg.melody[1]) :
           arg.melody[1][k].note \in PitchClasses \cup {BUZZER_NOTE_REST}
    /\ pre.playing = FALSE
    /\ fail = <<>>

\* C4: from a paused handle and with no hardware failure, play_melody emits
\* for each pitch, in melody order, one frequency-set to the note's
\* frequency, one resume, one sleep of duration_ms(type, bpm) and one pause,
\* and for each rest one sleep of duration_ms(type, bpm) and no hardware
\* call; C4 crotchet then a crotchet rest at 60 bpm gives a frequency-set, a
\* resume, a 1000 ms sleep, a pause and a 1000 ms sleep.
C4_MelodyEventSequence ==
    MelodyPlayedThrough =>
        /\ log = MelodyEvents(arg.melody[1], 1, arg.bpm)
        /\ ( /\ arg.bpm = 60
             /\ arg.melody[1] = << MusicalNote(BUZZER_NOTE_C, 4, BUZZER_NTYPE_CROTCHET),
                                   MusicalNote(BUZZER_NOTE_REST, 0, BUZZER_NTYPE_CROTCHET) >> )
           => log = << [call |-> "ledc_set_freq", arg |-> U32(261), note |-> 1],
                       [call |-> "ledc_timer_resume", arg |-> U32(0), note |-> 1],
                       [call |-> "vTaskDelay", arg |-> U32(1000), note |-> 1],
                       [call |-> "ledc_timer_pause", arg |-> U32(0), note |-> 1],
                       [call |-> "vTaskDelay", arg |-> U32(1000), note |-> 2] >>

C4_Witness ==
    /\ MelodyPlayedThrough
    /\ arg.bpm = 60
    /\ arg.melody[1] = << MusicalNote(BUZZER_NOTE_C, 4, BUZZER_NTYPE_CROTCHET),
                          MusicalNote(BUZZER_NOTE_REST, 0, BUZZER_NTYPE_CROTCHET) >>
    /\ Len(log) = 5

\* C5: rest_for_ms called on a playing handle has it paused during the sleep
\* and playing again when it returns success; called on a paused handle it
\* leaves it paused throughout and issues neither a pause nor a resume.
C5_RestRestoresState ==
    (op = "rest_ms" /\ arg.buzzer = HANDLE) =>
        /\ pc = "sleeping" => playing = FALSE
        /\ (pc = "idle" /\ pre.playing /\ ret = ESP_OK) => playing = TRUE
        /\ ~pre.playing =>
              /\ playing = FALSE
              /\ Count(log, "ledc_timer_pause") = 0
              /\ Count(log, "ledc_timer_resume") = 0

C5_Witness ==
    /\ HasReturned("rest_ms")
    /\ pre.playing
    /\ ret = ESP_OK
    /\ playing
    /\ Count(log, "vTaskDelay") = 1
    /\ Count(log, "ledc_timer_resume") = 1

\* play on a playing handle, or pause on a paused one, returns success,
\* leaves the state as it was and issues no hardware call
NoOpWhenAlreadyThere ==
    /\ (HasReturned("play") /\ pre.playing) =>
           (ret = ESP_OK /\ playing /\ log = <<>>)
    /\ (HasReturned("pause") /\ ~pre.playing) =>
           (ret = ESP_OK /\ ~playing /\ log = <<>>)

\* two consecutive plays issue at most one resume, two consecutive pauses at
\* most one pause; log is what the first issued, log' what the second did
TwoInARow ==
    /\ (op = "play" /\ op' = "play") =>
           Count(log, "ledc_timer_resume") + Count(log', "ledc_timer_resume") <= 1
    /\ (op = "pause" /\ op' = "pause") =>
           Count(log, "ledc_timer_pause") + Count(log', "ledc_timer_pause") <= 1

\* the same, for a first call that returned success
TwoInARowAfterSuccess ==
    /\ (op = "play" /\ ret = ESP_OK /\ op' = "play") =>
           Count(log, "ledc_timer_resume") + Count(log', "ledc_timer_resume") <= 1
    /\ (op = "pause" /\ ret = ESP_OK /\ op' = "pause") =>
           Count(log, "ledc_timer_pause") + Count(log', "ledc_timer_pause") <= 1

\* C6, as claimed: play on a playing handle (pause on a paused one) returns
\* success, changes nothing and issues no hardware call, so two consecutive
\* plays issue at most one resume and two consecutive pauses at most one
\* pause.
C6_Idempotent_Original == []NoOpWhenAlreadyThere /\ [][TwoInARow]_vars

\* C6, amended: the same, the bound on two consecutive calls holding when
\* the first of them returned success.
C6_Idempotent == []NoOpWhenAlreadyThere /\ [][TwoInARowAfterSuccess]_vars

C6_Witness ==
    /\ HasReturned("play")
    /\ pre.playing
    /\ playing
    /\ ret = ESP_OK
    /\ log = <<>>

\* C7: set_frequency(handle, 0) returns failure, issues no hardware call and
\* leaves the stored frequency and the play/pause state unchanged.
C7_ZeroFrequencyRejected ==
    (pc = "idle" /\ op = "set_freq" /\ arg.freq_hz = U32(0)) =>
        /\ ret = ESP_FAIL
        /\ log = <<>>
        /\ freq_hz = pre.freq_hz
        /\ playing = pre.playing

C7_Witness ==
    /\ HasReturned("set_freq")
    /\ arg.freq_hz = U32(0)
    /\ ret = ESP_FAIL
    /\ pre.freq_hz # BUZZER_INTIIAL_FREQ

\* C8: for freq_hz > 0, if the reprogram call succeeds get_frequency then
\* returns freq_hz; if it fails with any non-success result set_frequency
\* returns failure and get_frequency returns what it returned before.
C8_FrequencyStoredOnlyOnSuccess ==
    (HasReturned("set_freq") /\ arg.freq_hz # U32(0)) =>
        /\ fail = <<>> => buzzer_get_freq(Handle) = arg.freq_hz
        /\ fail # <<>> =>
              /\ ret = ESP_FAIL
              /\ buzzer_get_freq(Handle) =
                     buzzer_get_freq([Handle EXCEPT !.freq_hz = pre.freq_hz])

\* C9: for every note type weight and every bpm from 1 to MaxBpm,
\* note_type_duration_ms is ((60000 div bpm) * weight) div 8, the product
\* staying within 32 bits; a crotchet at 60 bpm is 1000 ms, a minim at 60 bpm
\* 2000 ms and a quaver at 120 bpm 250 ms.
C9_DurationFormula ==
    op = "note_type_to_ms" =>
        /\ arg.type \in {2, 3, 4, 6, 8, 12, 16, 24, 32, 48}
        /\ (60000 \div arg.bpm) * arg.type <= 2147483647
        /\ ret = ((60000 \div arg.bpm) * arg.type) \div 8
        /\ (arg.type = 8 /\ arg.bpm = 60) => ret = 1000
        /\ (arg.type = 16 /\ arg.bpm = 60) => ret = 2000
        /\ (arg.type = 4 /\ arg.bpm = 120) => ret = 250

C9_Witness ==
    /\ op = "note_type_to_ms"
    /\ arg.type = BUZZER_NTYPE_QUAVER
    /\ arg.bpm = 120
    /\ ret = 250

\* C10: for each of the 12 pitch classes and every octave o in 0..255,
\* note_frequency is base_table[note] / 2^(8 - min(o, 8)); for Rest and the
\* max sentinel it is 0 at every octave.
C10_NoteFrequency ==
    op = "get_note_freq" =>
        IF arg.note \in 0..11
        THEN /\ ret.den > 0
             /\ ret.num * 2^(8 - Min(arg.octave, 8)) = base_table(arg.note) * ret.den
        ELSE ret.num = 0 /\ ret.den > 0

C10_Witness ==
    /\ op = "get_note_freq"
    /\ arg.note = BUZZER_NOTE_A
    /\ arg.octave = 9
    /\ ret.num = 7040 * ret.den

\* C11: play_melody, play_note and play_test called with a bpm of 0 return
\* ESP_FAIL with no hardware call and no sleep (the log of the call is empty)
\* and leave the frequency and the playing flag as they were; and no call of
\* any operation stops in the division by zero of the duration conversion.
C11_ZeroTempoRejected ==
    /\ pc # "trapped"
    /\ (op \in {"play_melody", "play_note", "play_test"} /\ arg.bpm = 0)
           => /\ pc = "idle"
              /\ ret = ESP_FAIL
              /\ log = <<>>
              /\ freq_hz = pre.freq_hz
              /\ playing = pre.playing

\* a one-note melody was given to buzzer_play_melody with a bpm of 0 while
\* the buzzer was playing, and the call has returned
C11_Witness ==
    /\ HasReturned("play_melody")
    /\ arg.bpm = 0
    /\ arg.melody # <<>> /\ Len(arg.melody[1]) = 1
    /\ pre.playing = TRUE

\* C12: buzzer_is_playing returns true exactly when the handle it is given
\* is a buzzer that is playing (false for a paused one and for a NULL
\* handle), issues no hardware call and changes neither field.
C12_IsPlayingPureRead ==
    op = "is_playing"
        => /\ pc = "idle"
           /\ ret = (arg.buzzer = HANDLE /\ playing)
           /\ log = <<>>
           /\ playing = pre.playing
           /\ freq_hz = pre.freq_hz

\* the melody indices of the vTaskDelay entries of log l, in order
Slept(l) ==
    LET d == SelectSeq(l, LAMBDA e : e.call = "vTaskDelay")
    IN  [k \in 1..Len(d) |-> d[k].note]

\* buzzer_play_melody was called with a buzzer, a melody and a bpm that is
\* not 0
MelodyCalled ==
    op = "play_melody" /\ arg.buzzer = HANDLE /\ arg.melody # <<>> /\ arg.bpm # 0

\* the notes slept for so far are 1, 2, ... in order, once each; a return of
\* ESP_OK comes after all of them; any other return is ESP_FAIL, nothing was
\* issued for a note after the one that failed, and a hardware call that
\* reports ESP_FAIL is the last thing the melody does
MelodyInOrder ==
    MelodyCalled =>
        LET notes == arg.melody[1]
            slept == Slept(log)
        IN  /\ slept = [k \in 1..Len(slept) |-> k]
            /\ Len(slept) <= Len(notes)
            /\ (pc = "idle" /\ ret = ESP_OK) => Len(slept) = Len(notes)
            /\ (pc = "idle" /\ ret # ESP_OK)
                   => /\ ret = ESP_FAIL
                      /\ \A k \in 1..Len(log) : log[k].note <= Len(slept) + 1
            /\ (fail # <<>> /\ fail[1].res = ESP_FAIL)
                   => pc = "idle" /\ ret = ESP_FAIL /\ fail[1].pos = Len(log)

\* C13: with every vTaskDelay returning eventually, a buzzer_play_melody that
\* is blocked in a delay eventually returns; it returns ESP_OK only after
\* every note of the melody was processed once, in order, and otherwise
\* returns ESP_FAIL at the first note that failed.
C13_MelodyTerminates ==
    /\ []MelodyInOrder
    /\ (op = "play_melody" /\ pc = "sleeping")
           ~> (op = "play_melody" /\ pc = "idle")

\* a melody of two notes was played through and returned ESP_OK
C13_Witness ==
    /\ HasReturned("play_melody")
    /\ MelodyCalled
    /\ ret = ESP_OK
    /\ Len(arg.melody[1]) = 2
    /\ Slept(log) = <<1, 2>>

\* the log entry of a call made outside a melody
Entry(call, a) == [call |-> call, arg |-> a, note |-> 0]

\* C14: buzzer_play_ms on a buzzer plays, sleeps and pauses, in that order.
\* If buzzer_play fails it returns ESP_FAIL at once, with no vTaskDelay and
\* no pause.  Otherwise there is exactly one vTaskDelay, of time_ms, then the
\* pause, whose result is returned: ESP_OK with the buzzer paused, or ESP_FAIL
\* with the buzzer still playing.
C14_PlayMsOrder ==
    (op = "play_ms" /\ arg.buzzer = HANDLE) =>
        LET resume == IF pre.playing THEN <<>>
                      ELSE <<Entry("ledc_timer_resume", U32(0))>>
            sleep  == <<Entry("vTaskDelay", U32(arg.time_ms))>>
            pause  == <<Entry("ledc_timer_pause", U32(0))>>
        IN  \/ /\ pc = "idle"
               /\ ret = ESP_FAIL
               /\ log = resume /\ resume # <<>>
               /\ fail # <<>> /\ fail[1].res = ESP_FAIL
               /\ playing = FALSE
            \/ /\ pc = "sleeping"
               /\ log = resume \o sleep
               /\ playing = TRUE
            \/ /\ pc = "idle"
               /\ log = resume \o sleep \o pause
               /\ \/ ret = ESP_OK /\ playing = FALSE
                  \/ ret = ESP_FAIL /\ playing = TRUE /\ fail # <<>>

\* buzzer_play_ms resumed the timer, slept, and its pause failed: it returned
\* ESP_FAIL and the buzzer still plays
C14_Witness ==
    /\ HasReturned("play_ms")
    /\ Len(log) = 3
    /\ ret = ESP_FAIL
    /\ playing = TRUE

\* C15: buzzer_set_freq and buzzer_set_note, whether they succeed or fail,
\* leave the playing flag as it was and issue neither ledc_timer_resume nor
\* ledc_timer_pause.
C15_SetFreqKeepsPlayState ==
    op \in {"set_freq", "set_note"}
        => /\ pc = "idle"
           /\ playing = pre.playing
           /\ Count(log, "ledc_timer_resume") = 0
           /\ Count(log, "ledc_timer_pause") = 0

\* buzzer_set_note set the frequency of a buzzer that was playing
C15_Witness ==
    /\ HasReturned("set_note")
    /\ pre.playing = TRUE
    /\ ret = ESP_OK
    /\ Count(log, "ledc_set_freq") = 1

\* C16: every buzzer_set_freq call on a buzzer with a frequency that is not 0
\* issues exactly one ledc_set_freq, with that frequency, whether or not it
\* is the stored one; and a melody that returned ESP_OK issued one
\* ledc_set_freq for each of its notes that is not a rest, so two for the
\* same note twice in a row.
C16_AlwaysReprograms ==
    /\ (HasReturned("set_freq") /\ arg.freq_hz # U32(0))
           => log = <<Entry("ledc_set_freq", arg.freq_hz)>>
    /\ (MelodyCalled /\ pc = "idle" /\ ret = ESP_OK)
           => \A k \in 1..Len(arg.melody[1]) :
                  Cardinality({j \in 1..Len(log) :
                                  /\ log[j].call = "ledc_set_freq"
                                  /\ log[j].note = k})
                      = IF arg.melody[1][k].note = BUZZER_NOTE_REST THEN 0 ELSE 1

\* a melody of the same note twice was played through with every hardware
\* call succeeding: the frequency was set twice, to the same value
C16_Witness ==
    /\ HasReturned("play_melody")
    /\ MelodyCalled
    /\ ret = ESP_OK
    /\ fail = <<>>
    /\ Len(arg.melody[1]) = 2
    /\ arg.melody[1][1] = arg.melody[1][2]
    /\ Count(log, "ledc_set_freq") = 2
    /\ log[1].arg = log[5].arg

\* C17: buzzer_play_note with a rest issues no ledc_set_freq and leaves the
\* stored frequency as it was, and the buzzer is paused all the time the call
\* is blocked in the rest's vTaskDelay; the same holds for a rest that is a
\* note of a melody.
C17_RestNeverReprograms ==
    /\ (/\ op = "play_note" /\ arg.buzzer = HANDLE /\ arg.bpm # 0
        /\ arg.mnote # <<>> /\ arg.mnote[1].note = BUZZER_NOTE_REST)
           => /\ Count(log, "ledc_set_freq") = 0
              /\ freq_hz = pre.freq_hz
              /\ pc = "sleeping" => playing = FALSE
    /\ (MelodyCalled /\ pc = "sleeping" /\ arg.melody[1][i].note = BUZZER_NOTE_REST)
           => /\ playing = FALSE
              /\ \A k \in 1..Len(log) :
                     log[k].note = i => log[k].call # "ledc_set_freq"

\* buzzer_play_note is blocked in the vTaskDelay of a rest, on a buzzer that
\* was playing when it was called
C17_Witness ==
    /\ op = "play_note" /\ arg.buzzer = HANDLE
    /\ arg.mnote # <<>> /\ arg.mnote[1].note = BUZZER_NOTE_REST
    /\ pc = "sleeping"
    /\ pre.playing = TRUE
    /\ playing = FALSE

\* C18: in every reachable state the playing flag is true exactly when the
\* hardware timer is running; in particular it is false, with the timer
\* paused, right after buzzer_init.
C18_FlagAgreesWithTimer == playing = timer_running

\* C19: when buzzer_play_ms, buzzer_play_note_ms, buzzer_play_note of a note
\* that is not a rest, or buzzer_play_melody of a melody whose last note is
\* not a rest returns ESP_OK, the buzzer is paused, whatever it was before;
\* and a buzzer_play_melody that was called on a paused buzzer and returns
\* ESP_OK leaves it paused.
C19_SuccessfulToneEndsSilent ==
    /\ (/\ op \in {"play_ms", "play_note_ms"} /\ pc = "idle"
        /\ arg.buzzer = HANDLE /\ ret = ESP_OK)
           => playing = FALSE
    /\ (/\ HasReturned("play_note") /\ ret = ESP_OK
        /\ arg.mnote # <<>> /\ arg.mnote[1].note # BUZZER_NOTE_REST)
           => playing = FALSE
    /\ (MelodyCalled /\ pc = "idle" /\ ret = ESP_OK)
           => LET notes == arg.melody[1]
              IN  /\ (notes # <<>> /\ notes[Len(notes)].note # BUZZER_NOTE_REST)
                         => playing = FALSE
                  /\ pre.playing = FALSE => playing = FALSE

\* a melody that ends in a pitch was played through, with success, on a
\* buzzer that was playing when it began
C19_Witness ==
    /\ HasReturned("play_melody")
    /\ MelodyCalled
    /\ ret = ESP_OK
    /\ pre.playing = TRUE
    /\ arg.melody[1] # <<>>
    /\ arg.melody[1][Len(arg.melody[1])].note = BUZZER_NOTE_C
    /\ playing = FALSE

\* C20: buzzer_set_note and buzzer_play_note_ms called with BUZZER_NOTE_REST
\* or BUZZER_NOTE_MAX return ESP_FAIL with no hardware call and no sleep and
\* leave the frequency and the playing flag as they were; called on a buzzer
\* with one of the 12 pitch classes at an octave 0..8 they are not rejected:
\* the first thing they do is set the frequency, to the note's frequency cut
\* to an integer, which is at least 1.
C20_SentinelNeverSet ==
    op \in {"set_note", "play_note_ms"}
        => /\ arg.note \in {BUZZER_NOTE_REST, BUZZER_NOTE_MAX}
                  => /\ pc = "idle"
                     /\ ret = ESP_FAIL
                     /\ log = <<>>
                     /\ freq_hz = pre.freq_hz
                     /\ playing = pre.playing
           /\ (arg.buzzer = HANDLE /\ arg.note \in PitchClasses /\ arg.octave \in 0..8)
                  => LET hz == DoubleToUint32(buzzer_get_note_freq(arg.note, arg.octave))
                     IN  /\ ToInt32(hz) >= 1
                         /\ log # <<>>
                         /\ log[1] = Entry("ledc_set_freq", hz)

\* buzzer_play_note_ms was called on a buzzer with a rest and has returned
C20_Witness ==
    /\ HasReturned("play_note_ms")
    /\ arg.note = BUZZER_NOTE_REST
    /\ ret = ESP_FAIL
    /\ log = <<>>

====
